---- MODULE Spec2Model ----
(***************************************************************************)
(* Model of the Emacs <-> C++ bridge of pdf-mode (include/bridge.hpp,      *)
(* unnamed/part_000, include/expected.hpp, src/lib.cpp).                   *)
(*                                                                         *)
(* The specifications share the variables: Spec (one call of a native      *)
(* function through the bridge), SpecLoad (registration of descriptors,    *)
(* emacs_module_init and clear), SpecString (make<String> followed by      *)
(* as<String>), SpecExpected (operations on Expected<T, E> objects),       *)
(* SpecCall (one Env::call with native arguments), SpecTime (make<Time>    *)
(* followed by as<Time>) and SpecMessage (one Env::message).               *)
(*                                                                         *)
(* The host (Emacs) side of the module ABI is modelled by the h_*          *)
(* operators: one pending non-local-exit slot per environment, and the     *)
(* documented rule that an environment function called while an exit is    *)
(* pending does nothing.  The host is assumed not to run out of memory.    *)
(* Everything else is a translation of the bridge code.                    *)
(***************************************************************************)
EXTENDS Integers, Sequences, FiniteSets, TLC

\* ------------------------------------------------------------------ bounds
\* number of context operations one native function body performs at most
MaxSteps == 2
\* scaled width of std::intmax_t (two's complement)
IntmaxBits == 5
\* scaled width of int
IntBits == 3
\* descriptors registered before the module is loaded, at most
MaxDefuns == 3
\* bytes in a string handed to make<String>, at most
MaxLen == 3

\* ------------------------------------------------------------ Lisp objects
\* An emacs_value handle is modelled by the object it designates.
Obj(tag, num, str, items) == [tag |-> tag, num |-> num, str |-> str, items |-> items]

\* the null handle (nullptr)
NULLV == Obj("NULL", 0, "", <<>>)

LispSym(name) == Obj("symbol", 0, name, <<>>)

LispInt(n) == Obj("integer", n, "", <<>>)

LispFloat(n) == Obj("float", n, "", <<>>)

LispString(s) == Obj("string", 0, s, <<>>)

LispList(items) == Obj("cons", 0, "", items)

LispVector(items) == Obj("vector", 0, "", items)
\* a module function: min_arity, max_arity (negative: emacs_variadic_function)
\* and the form of the trampoline it runs
LispFunction(min, max, form) == Obj("module-function", min, form, <<LispInt(max)>>)

\* native (C++) values carried through the universal trampoline
CInt(n) == Obj("c:int", n, "", <<>>)

CDouble(n) == Obj("c:double", n, "", <<>>)

CString(s) == Obj("c:string", 0, s, <<>>)

CBool(b) == Obj("c:bool", IF b THEN 1 ELSE 0, "", <<>>)

CValue(v) == Obj("c:Value", 0, "", <<v>>)

CVoid == Obj("c:void", 0, "", <<>>)

\* ------------------------------------------------------------------ Error
\* yapdf::emacs::Error: (status_, sym_, data_)
Error(status, sym, data) == [status |-> status, sym |-> sym, data |-> data]

\* the pending-error slot of an emacs_env when nothing is pending
NoExit == Error("Return", NULLV, NULLV)

\* ------------------------------------------------------------ native ints
IntmaxMax == 2 ^ (IntmaxBits - 1) - 1

IntmaxMin == -(2 ^ (IntmaxBits - 1))

IntMax == 2 ^ (IntBits - 1) - 1

\* static_cast<T>(x) for a signed T of the given width
StaticCast(x, bits) == ((x + 2 ^ (bits - 1)) % (2 ^ bits)) - 2 ^ (bits - 1)

\* -------------------------------------------------------------- host (ABI)
\* Every h_* operator takes the pending slot p and yields [ret, pending].
HostRet(ret, p) == [ret |-> ret, pending |-> p]

h_non_local_exit_check(p) == p.status

h_non_local_exit_get(p) == p

h_non_local_exit_clear(p) == NoExit

h_non_local_exit_signal(p, sym, data) ==
    IF p.status = "Return" THEN Error("Signal", sym, data) ELSE p

h_non_local_exit_throw(p, tag, val) ==
    IF p.status = "Return" THEN Error("Throw", tag, val) ELSE p

\* (the value a host function returns while an exit is pending is a dummy:
\* the null handle, zero, or the empty string)
h_intern(p, name) ==
    IF p.status # "Return" THEN HostRet(NULLV, p) ELSE HostRet(LispSym(name), p)

h_make_integer(p, n) ==
    IF p.status # "Return" THEN HostRet(NULLV, p) ELSE HostRet(LispInt(n), p)

h_make_float(p, n) ==
    IF p.status # "Return" THEN HostRet(NULLV, p) ELSE HostRet(LispFloat(n), p)

h_make_string(p, s) ==
    IF p.status # "Return" THEN HostRet(NULLV, p) ELSE HostRet(LispString(s), p)

WrongType(pred, v) == Error("Signal", LispSym("wrong-type-argument"), LispList(<<LispSym(pred), v>>))

h_extract_integer(p, v) ==
    IF p.status # "Return" THEN HostRet(CInt(0), p)
    ELSE IF v.tag # "integer" THEN HostRet(CInt(0), WrongType("integerp", v))
    ELSE IF v.num > IntmaxMax \/ v.num < IntmaxMin
         THEN HostRet(CInt(0), Error("Signal", LispSym("overflow-error"), LispList(<<>>)))
    ELSE HostRet(CInt(v.num), p)

h_extract_float(p, v) ==
    IF p.status # "Return" THEN HostRet(CDouble(0), p)
    ELSE IF v.tag # "float" THEN HostRet(CDouble(0), WrongType("floatp", v))
    ELSE HostRet(CDouble(v.num), p)

h_copy_string_contents(p, v) ==
    IF p.status # "Return" THEN HostRet(CString(""), p)
    ELSE IF v.tag # "string" THEN HostRet(CString(""), WrongType("stringp", v))
    ELSE HostRet(CString(v.str), p)

h_is_not_nil(p, v) ==
    IF p.status # "Return" THEN HostRet(CBool(FALSE), p)
    ELSE HostRet(CBool(v # LispSym("nil")), p)

\* funcall of the Lisp function `list'
h_funcall_list(p, f, args) ==
    IF p.status # "Return" THEN HostRet(NULLV, p) ELSE HostRet(LispList(args), p)

\* make_function: min_arity and max_arity must be nonnegative and max_arity
\* not less than min_arity, or max_arity is emacs_variadic_function
emacs_variadic_function == -2

h_make_function(p, min, max, form) ==
    IF p.status # "Return" THEN HostRet(NULLV, p)
    ELSE IF min < 0 \/ (max < min /\ max # emacs_variadic_function)
         THEN HostRet(NULLV, Error("Signal", LispSym("invalid-arity"),
                                   LispList(<<LispInt(min), LispInt(max)>>)))
    ELSE HostRet(LispFunction(min, max, form), p)

\* whether the host dispatches a call of fn with nargs arguments
Dispatches(fn, nargs) ==
    fn.num <= nargs /\ (fn.items[1].num = emacs_variadic_function \/ nargs <= fn.items[1].num)

\* funcall of a module function, or of the Lisp function a symbol names;
\* `outcome' is what the function leaves behind when the host dispatches the
\* call: [ret, pending]
h_funcall(p, fn, argv, outcome) ==
    IF p.status # "Return" THEN [ret |-> NULLV, pending |-> p, invoked |-> FALSE]
    ELSE IF fn.tag = "symbol"
         THEN [ret |-> outcome.ret, pending |-> outcome.pending, invoked |-> FALSE]
    ELSE IF fn.tag # "module-function"
         THEN [ret |-> NULLV, invoked |-> FALSE,
               pending |-> Error("Signal", LispSym("invalid-function"), LispList(<<fn>>))]
    ELSE IF ~Dispatches(fn, Len(argv))
         THEN [ret |-> NULLV, invoked |-> FALSE,
               pending |-> Error("Signal", LispSym("wrong-number-of-arguments"),
                                 LispList(<<fn, LispInt(Len(argv))>>))]
    ELSE [ret |-> outcome.ret, pending |-> outcome.pending, invoked |-> TRUE]

h_vec_get(p, v, idx) ==
    IF p.status # "Return" THEN HostRet(NULLV, p)
    ELSE IF v.tag # "vector" THEN HostRet(NULLV, WrongType("vectorp", v))
    ELSE IF idx >= Len(v.items)
         THEN HostRet(NULLV, Error("Signal", LispSym("args-out-of-range"), LispList(<<v, LispInt(idx)>>)))
    ELSE HostRet(v.items[idx + 1], p)

\* vec_set yields the vector's items afterwards and the slot
h_vec_set(p, v, idx, x) ==
    IF p.status # "Return" THEN HostRet(v.items, p)
    ELSE IF v.tag # "vector" THEN HostRet(v.items, WrongType("vectorp", v))
    ELSE IF idx >= Len(v.items)
         THEN HostRet(v.items, Error("Signal", LispSym("args-out-of-range"), LispList(<<v, LispInt(idx)>>)))
    ELSE HostRet([v.items EXCEPT ![idx + 1] = x], p)

\* ------------------------------------------------------- Expected<T, Error>
Ok(v) == [ok |-> TRUE, val |-> v, err |-> NoExit]

Unexpected(e) == [ok |-> FALSE, val |-> NULLV, err |-> e]

\* what a bridge operation hands back (x) and the slot it leaves behind
Out(x, p) == [x |-> x, pending |-> p]

\* ------------------------------------------------------ Env: error channel
Env_checkError(p) == Out(h_non_local_exit_check(p), p)

Env_getError_clearing(p) ==
    Out(Error(h_non_local_exit_get(p).status, h_non_local_exit_get(p).sym, h_non_local_exit_get(p).data),
        h_non_local_exit_clear(p))

Env_getError(p) ==
    Out(Error(h_non_local_exit_get(p).status, h_non_local_exit_get(p).sym, h_non_local_exit_get(p).data), p)

Env_clearError(p) == h_non_local_exit_clear(p)

Env_throwError_asSignal(p, err) == h_non_local_exit_signal(p, err.sym, err.data)

Env_throwError(p, err) == h_non_local_exit_throw(p, err.sym, err.data)

Env_signalError_overwriting(p, err) ==
    h_non_local_exit_signal(h_non_local_exit_clear(p), err.sym, err.data)

Env_signalError(p, err) == h_non_local_exit_signal(p, err.sym, err.data)

\* Error::report; the default branch is YAPDF_UNREACHABLE
Error_report(p, err) ==
    CASE err.status = "Signal" -> Env_signalError(p, err)
      [] err.status = "Throw" -> Env_throwError(p, err)
      [] OTHER -> p

\* YAPDF_EMACS_APPLY_CHECK applied to the outcome h of one host call
YAPDF_EMACS_APPLY_CHECK_noSwitch(h) ==
    Out(Unexpected(Env_getError(h.pending).x), Env_clearError(Env_getError(h.pending).pending))

YAPDF_EMACS_APPLY_CHECK_noClear(h) ==
    IF Env_checkError(h.pending).x = "Return"
    THEN Out(Ok(h.ret), h.pending)
    ELSE Out(Unexpected(Env_getError(h.pending).x), Env_getError(h.pending).pending)

YAPDF_EMACS_APPLY_CHECK(h) ==
    IF Env_checkError(h.pending).x = "Return"
    THEN Out(Ok(h.ret), h.pending)
    ELSE Out(Unexpected(Env_getError(h.pending).x), Env_clearError(Env_getError(h.pending).pending))

\* -------------------------------------------------- Env / Value: conversions
Env_intern(p, s) == YAPDF_EMACS_APPLY_CHECK(h_intern(p, s))

Env_makeInt(p, n) == YAPDF_EMACS_APPLY_CHECK(h_make_integer(p, n))

Env_makeFloat(p, n) == YAPDF_EMACS_APPLY_CHECK(h_make_float(p, n))

Env_makeString(p, s) == YAPDF_EMACS_APPLY_CHECK(h_make_string(p, s))

Value_asInt(p, v) == YAPDF_EMACS_APPLY_CHECK(h_extract_integer(p, v))

Value_asFloat_unchecked(p, v) == Out(Ok(h_extract_float(p, v).ret), h_extract_float(p, v).pending)

Value_asFloat(p, v) == YAPDF_EMACS_APPLY_CHECK(h_extract_float(p, v))

\* two passes over copy_string_contents: the length, then the bytes
Value_asString(p, v) ==
    LET len == YAPDF_EMACS_APPLY_CHECK(h_copy_string_contents(p, v))
    IN  IF ~len.x.ok THEN len
        ELSE YAPDF_EMACS_APPLY_CHECK(h_copy_string_contents(len.pending, v))

Value_at(p, v, idx) == YAPDF_EMACS_APPLY_CHECK(h_vec_get(p, v, idx))

\* Value::VectorProxy::operator Value: YAPDF_EMACS_APPLY, nothing more
VectorProxy_get_checked(p, v, idx) ==
    HostRet(h_vec_get(p, v, idx).ret, YAPDF_EMACS_APPLY_CHECK(h_vec_get(p, v, idx)).pending)

VectorProxy_get(p, v, idx) == h_vec_get(p, v, idx)

\* Value::VectorProxy::operator=
VectorProxy_set(p, v, idx, x) == h_vec_set(p, v, idx, x)

\* Env::call("list", xs...) with xs already Values
Env_callList(p, xs) ==
    LET symbol == YAPDF_EMACS_APPLY_CHECK(h_intern(p, "list"))
    IN  IF ~symbol.x.ok THEN symbol
        ELSE YAPDF_EMACS_APPLY_CHECK(h_funcall_list(symbol.pending, symbol.x.val, xs))

\* Env::call(f, xs...) with f a Value and xs already Values: to_lisp of a Value
\* is the Value itself
Env_call_unchecked(p, f, xs, outcome) ==
    Out(Ok(h_funcall(p, f, xs, outcome).ret), h_funcall(p, f, xs, outcome).pending)

Env_call(p, f, xs, outcome) == YAPDF_EMACS_APPLY_CHECK(h_funcall(p, f, xs, outcome))

\* Env::make<Function>(min_arity, max_arity, f, docstring, data) and its wrapped
\* overload, which passes Env::trampoline
Env_makeFunction(p, min, max, form) == YAPDF_EMACS_APPLY_CHECK(h_make_function(p, min, max, form))

\* Env::make<Function>(R (*f)(Env&, Args...), docstring): arity = sizeof...(Args)
Env_makeUniversal_anyFewer(p, Args) == Env_makeFunction(p, 0, Len(Args), "universal")

Env_makeUniversal(p, Args) == Env_makeFunction(p, Len(Args), Len(Args), "universal")

\* Expected::discard
Expected_discard(x) == IF x.ok THEN Ok(CVoid) ELSE x

\* Env::call(name, xs...) with xs Expected<Value, Error>s or Values
Env_callNamed(p, name, xs, outcome) ==
    LET symbol == YAPDF_EMACS_APPLY_CHECK(h_intern(p, name))
        bad == {i \in 1..Len(xs) : ~xs[i].ok}
    IN  IF ~symbol.x.ok THEN symbol
        ELSE IF bad # {} THEN Out(Unexpected(xs[CHOOSE i \in bad : \A j \in bad : i <= j].err), symbol.pending)
        ELSE YAPDF_EMACS_APPLY_CHECK(h_funcall(symbol.pending, symbol.x.val,
                                               [i \in 1..Len(xs) |-> xs[i].val], outcome))

\* Env::defalias
Env_defalias(p, s, f, outcome) ==
    LET symbol == Env_intern(p, s)
    IN  IF ~symbol.x.ok THEN symbol
        ELSE LET c == Env_callNamed(symbol.pending, "defalias", <<symbol.x, Ok(f)>>, outcome)
             IN  Out(Expected_discard(c.x), c.pending)

\* Env::provide
Env_provide(p, feature, outcome) ==
    LET c == Env_callNamed(Env_intern(p, feature).pending, "provide", <<Env_intern(p, feature).x>>, outcome)
    IN  Out(Expected_discard(c.x), c.pending)

\* Env::signal(env, sym, what)
signal(p, sym, what) ==
    LET what_obj == h_make_string(p, what)
        list == h_intern(what_obj.pending, "list")
        data == h_funcall_list(list.pending, list.ret, <<what_obj.ret>>)
        symbol == h_intern(data.pending, sym)
    IN  h_non_local_exit_signal(symbol.pending, symbol.ret, data.ret)

\* ------------------------------------------------------------- exceptions
\* A thrown C++ object: its dynamic type and what() (non-std objects have none)
Exception(type, what) == [type |-> type, what |-> what]

NoException == Exception("none", "")

\* the direct base class of each exception type of the model
Parent(t) ==
    CASE t = "overflow_error" -> "runtime_error"
      [] t = "underflow_error" -> "runtime_error"
      [] t = "range_error" -> "runtime_error"
      [] t = "runtime_error" -> "exception"
      [] t = "out_of_range" -> "logic_error"
      [] t = "BadExpectedAccess" -> "logic_error"
      [] t = "logic_error" -> "exception"
      [] t = "bad_alloc" -> "exception"
      [] t = "bad_array_new_length" -> "bad_alloc"
      [] OTHER -> ""

RECURSIVE Ancestors(_)
Ancestors(t) == {t} \cup (IF Parent(t) = "" THEN {} ELSE Ancestors(Parent(t)))

Handler(class, cond) == [class |-> class, cond |-> cond]

\* catch clauses of the wrapped trampoline, in source order
WrappedHandlers_exceptionFirst ==
    << Handler("exception", "error"),
       Handler("overflow_error", "overflow-error"),
       Handler("underflow_error", "underflow-error"),
       Handler("range_error", "range-error"),
       Handler("out_of_range", "out-of-range"),
       Handler("bad_alloc", "memory-full"),
       Handler("...", "error") >>

WrappedHandlers ==
    << Handler("overflow_error", "overflow-error"),
       Handler("underflow_error", "underflow-error"),
       Handler("range_error", "range-error"),
       Handler("out_of_range", "out-of-range"),
       Handler("bad_alloc", "memory-full"),
       Handler("exception", "error"),
       Handler("...", "error") >>

\* catch clauses of the universal trampoline, in source order
UniversalHandlers_noConvert ==
    << Handler("overflow_error", "overflow-error"),
       Handler("underflow_error", "underflow-error"),
       Handler("range_error", "range-error"),
       Handler("out_of_range", "out-of-range"),
       Handler("bad_alloc", "memory-full"),
       Handler("exception", "error"),
       Handler("...", "error") >>

UniversalHandlers ==
    << Handler("overflow_error", "overflow-error"),
       Handler("underflow_error", "underflow-error"),
       Handler("range_error", "range-error"),
       Handler("out_of_range", "out-of-range"),
       Handler("bad_alloc", "memory-full"),
       Handler("BadExpectedAccess", "convert-error"),
       Handler("exception", "error"),
       Handler("...", "error") >>

\* index of the first catch clause that matches a thrown type, 0 if none does
FirstHandler(hs, t) ==
    LET I == {i \in 1..Len(hs) : hs[i].class = "..." \/ hs[i].class \in Ancestors(t)}
    IN  IF I = {} THEN 0 ELSE CHOOSE i \in I : \A j \in I : i <= j

\* the try/catch barrier of a trampoline: what is left pending, and whether the
\* exception leaves the noexcept function
CatchAll_dropEllipsis(hs, p, exc) ==
    LET i == FirstHandler(SubSeq(hs, 1, Len(hs) - 1), exc.type)
    IN  IF i = 0 THEN [escaped |-> TRUE, pending |-> p]
        ELSE [escaped |-> FALSE, pending |-> signal(p, hs[i].cond, exc.what)]

CatchAll(hs, p, exc) ==
    LET i == FirstHandler(hs, exc.type)
    IN  IF i = 0 THEN [escaped |-> TRUE, pending |-> p]
        ELSE [escaped |-> FALSE,
              pending |-> signal(p, hs[i].cond,
                                 IF hs[i].class = "..." THEN "unknown error" ELSE exc.what)]

\* ------------------------------------------------- to_lisp / from_lisp
\* Env::to_lisp for a native result r of static type R.  A native
\* Expected<Value, Error> is passed through as it is.
to_lisp(R, p, r) ==
    CASE R = "Expected" -> Out(r, p)
      [] R = "Value" -> Out(Ok(r.val.items[1]), p)
      [] R = "bool" -> Env_intern(p, IF r.val.num = 1 THEN "t" ELSE "nil")
      [] R = "double" -> Env_makeFloat(p, r.val.num)
      [] R = "string" -> Env_makeString(p, r.val.str)
      [] OTHER -> Env_makeInt(p, r.val.num)

\* ---------------------------------------- Env::call with native arguments
\* an argument of Env::call: its static type and the native value
Arg(R, r) == [type |-> R, r |-> r]

\* what one Env::call did: the Result, the slot, the Results of the argument
\* conversions and the argument vectors funcall was performed with
Called(x, p, xs, funcalls) == [x |-> x, pending |-> p, xs |-> xs, funcalls |-> funcalls]

\* Expected<Value, Error> xs[] = {to_lisp(*this, args)...}: a braced list is
\* evaluated left to right, and every argument is converted
RECURSIVE ToLispAll(_, _, _)
ToLispAll(p, as, xs) ==
    IF as = <<>> THEN [xs |-> xs, pending |-> p]
    ELSE LET o == to_lisp(Head(as).type, p, Head(as).r)
         IN  ToLispAll(o.pending, Tail(as), Append(xs, o.x))

FirstError_last(xs) ==
    LET bad == {i \in 1..Len(xs) : ~xs[i].ok}
    IN  IF bad = {} THEN 0 ELSE CHOOSE i \in bad : \A j \in bad : i >= j

\* the loop over xs: the first error-state element ends the call
FirstError(xs) ==
    LET bad == {i \in 1..Len(xs) : ~xs[i].ok}
    IN  IF bad = {} THEN 0 ELSE CHOOSE i \in bad : \A j \in bad : i <= j

\* Env::call(f, args...): F is "Value" (f a handle) or "const char*" (f a name)
Env_callArgs(p, F, f, as, outcome) ==
    LET symbol == IF F = "Value" THEN Out(Ok(f), p) ELSE YAPDF_EMACS_APPLY_CHECK(h_intern(p, f.str))
    IN  IF ~symbol.x.ok THEN Called(symbol.x, symbol.pending, <<>>, <<>>)
        ELSE LET c == ToLispAll(symbol.pending, as, <<>>)
                 ys == [i \in 1..Len(as) |-> c.xs[i].val]
                 o == YAPDF_EMACS_APPLY_CHECK(h_funcall(c.pending, symbol.x.val, ys, outcome))
             IN  IF FirstError(c.xs) # 0
                 THEN Called(Unexpected(c.xs[FirstError(c.xs)].err), c.pending, c.xs, <<>>)
                 ELSE Called(o.x, o.pending, c.xs, <<ys>>)

\* --------------------------------------------------------- Env::message
\* *p: the first char of the buffer, the terminator when the text is empty; a
\* byte above 127 is negative where char is signed
Deref(text, charSigned) ==
    IF text = <<>> THEN 0
    ELSE IF charSigned /\ text[1] > 127 THEN text[1] - 256 ELSE text[1]

\* what one Env::message did: its return value and its Env::call, if any
Messaged(ret, did) == [ret |-> ret, did |-> did]

\* Env::message(fmt, ...): `text' is what vsnprintf makes of fmt and the
\* arguments; sized, allocated and formatted tell whether the first vsnprintf,
\* malloc and the second vsnprintf succeed
Env_message(p, text, sized, allocated, formatted, charSigned, outcome) ==
    IF ~sized \/ ~allocated \/ ~formatted THEN Messaged(-1, Called(Ok(NULLV), p, <<>>, <<>>))
    ELSE LET result == Env_callArgs(p, "const char*", CString("message"),
                                    <<Arg("string", Ok(CString("%s"))), Arg("char", Ok(CInt(Deref(text, charSigned))))>>,
                                    outcome)
         IN  Messaged(IF result.x.ok THEN 0 ELSE -1, result)

\* Expected::map(static_cast<T>) on the outcome of an extraction
MapCast(o, bits) ==
    IF o.x.ok THEN Out(Ok(CInt(StaticCast(o.x.val.num, bits))), o.pending) ELSE o

\* Env::from_lisp<T>
from_lisp_unchecked(T, p, v) ==
    CASE T = "string" -> Out(Ok(h_copy_string_contents(p, v).ret), p)
      [] T = "double" -> Out(Ok(h_extract_float(p, v).ret), p)
      [] T = "bool" -> Out(Ok(h_is_not_nil(p, v).ret), h_is_not_nil(p, v).pending)
      [] T = "Value" -> Out(Ok(CValue(v)), p)
      [] OTHER -> Out(Ok(h_extract_integer(p, v).ret), p)

from_lisp(T, p, v) ==
    CASE T = "string" -> Value_asString(p, v)
      [] T = "double" -> Value_asFloat(p, v)
      [] T = "bool" -> Out(Ok(h_is_not_nil(p, v).ret), h_is_not_nil(p, v).pending)
      [] T = "Value" -> Out(Ok(CValue(v)), p)
      [] T = "int" -> MapCast(Value_asInt(p, v), IntBits)
      [] OTHER -> Value_asInt(p, v)

\* Env::trampoline<Args...>: from_lisp<Args>(e, args[Is]).value()... evaluated in
\* the order `order' (the order of evaluation of function arguments is the
\* compiler's choice); the first failing extraction throws BadExpectedAccess.
\* Yields the native arguments, or the failed Expected.
RECURSIVE Marshal(_, _, _, _, _)
Marshal(sig, p, argv, order, vals) ==
    IF order = <<>> THEN [ok |-> TRUE, vals |-> vals, failed |-> Ok(NULLV), pending |-> p]
    ELSE LET i == Head(order)
             o == from_lisp(sig[i], p, argv[i])
         IN  IF ~o.x.ok
             THEN [ok |-> FALSE, vals |-> vals, failed |-> o.x, pending |-> o.pending]
             ELSE Marshal(sig, o.pending, argv, Tail(order), [vals EXCEPT ![i] = o.x.val])

\* ------------------------------------------------------------ Expected
\* Expected::value() / Expected::error(): the wrong state throws
Expected_access(x, which) ==
    IF (which = "value" /\ ~x.ok) \/ (which = "error" /\ x.ok)
    THEN Exception("BadExpectedAccess", "Bad expected access")
    ELSE NoException

\* ------------------------------------------------------- the trampolines
\* wrapped trampoline, after f returned `result'
Env_trampoline_ignoreError(p, result) == [ret |-> result.val, pending |-> p]

Env_trampoline(p, result) ==
    IF result.ok THEN [ret |-> result.val, pending |-> p]
    ELSE [ret |-> NULLV, pending |-> Error_report(p, result.err)]

\* universal trampoline, after f returned the native value r of type R
UniversalTrampoline_dropError(R, p, r) ==
    IF R = "void" THEN [ret |-> h_intern(p, "nil").ret, pending |-> h_intern(p, "nil").pending]
    ELSE [ret |-> to_lisp(R, p, r).x.val, pending |-> to_lisp(R, p, r).pending]

UniversalTrampoline(R, p, r) ==
    IF R = "void" THEN [ret |-> h_intern(p, "nil").ret, pending |-> h_intern(p, "nil").pending]
    ELSE LET ex == to_lisp(R, p, r)
         IN  IF ex.x.ok THEN [ret |-> ex.x.val, pending |-> ex.pending]
             ELSE [ret |-> NULLV, pending |-> Error_report(ex.pending, ex.x.err)]

\* --------------------------------------- Expected<T, E> over std::variant
\* ex_: the index of the alternative held and its content; index -1 is
\* std::variant_npos (valueless by exception)
Variant(index, v) == [index |-> index, v |-> v]

Valueless == Variant(-1, 0)

\* Expected(const T&), Expected(std::in_place_t, ...)
Expected_ofValue(v) == Variant(0, v)

\* Expected(const Unexpected<E>&), Expected(UnexpectType, ...)
Expected_ofError(e) == Variant(1, e)

Expected_hasValue(x) == x.index = 0

Expected_hasError(x) == x.index = 1

\* std::variant::emplace<I>: the old content is destroyed, then the new one is
\* constructed; if that construction throws, the variant is left valueless
variant_emplace(x, I, v, throws) == IF throws THEN Valueless ELSE Variant(I, v)

\* operator=(const T&), operator=(T&&)
Expected_assignValue(x, v, throws) == variant_emplace(x, 0, v, throws)

\* operator=(const Unexpected<E>&), operator=(Unexpected<E>&&)
Expected_assignError(x, e, throws) == variant_emplace(x, 1, e, throws)

\* emplace(args...)
Expected_emplace(x, v, throws) == variant_emplace(x, 0, v, throws)

\* operator=(const Expected&) = default: the variant's copy assignment; when
\* the alternatives differ and the copy throws, *this is left valueless or
\* untouched (the copy is made first if T can be moved without throwing)
Expected_assign(x, y, throws) == IF ~throws THEN {y} ELSE {x} \cup (IF x.index # y.index THEN {Valueless} ELSE {})

\* swap(rhs): ex_.swap(rhs.ex_); a move that throws leaves both as they were
\* or one of them valueless
Expected_swap(x, y, throws) ==
    IF ~throws THEN {<<y, x>>}
    ELSE {<<x, y>>} \cup (IF x.index # y.index THEN {<<Valueless, y>>, <<x, Valueless>>} ELSE {})

\* what a call on an Expected did: the exception it threw (NoException when it
\* returned), the payload or Expected it returned and the calls of f it made
Did(exc, val, calls) == [exc |-> exc, val |-> val, calls |-> calls]

BadExpectedAccess(s) == Exception("BadExpectedAccess", s)

\* std::get<I>(ex_) on a variant that holds another alternative
bad_variant_access == Exception("bad_variant_access", "bad variant access")

\* value(): throws when hasError(), else std::get<0>(ex_)
Expected_value(x) ==
    IF Expected_hasError(x) THEN Did(BadExpectedAccess("Bad expected access"), 0, <<>>)
    ELSE IF x.index = 0 THEN Did(NoException, x.v, <<>>)
    ELSE Did(bad_variant_access, 0, <<>>)

\* error(): throws when hasValue(), else std::get<1>(ex_)
Expected_error(x) ==
    IF Expected_hasValue(x) THEN Did(BadExpectedAccess("Bad expected access"), 0, <<>>)
    ELSE IF x.index = 1 THEN Did(NoException, x.v, <<>>)
    ELSE Did(bad_variant_access, 0, <<>>)

Expected_expect_defaultMessage(x, s) == Expected_value(x)

\* expect(s)
Expected_expect(x, s) ==
    IF Expected_hasError(x) THEN Did(BadExpectedAccess(s), 0, <<>>) ELSE Expected_value(x)

\* expectErr(s)
Expected_expectErr(x, s) ==
    IF Expected_hasValue(x) THEN Did(BadExpectedAccess(s), 0, <<>>) ELSE Expected_error(x)

\* the functions handed to map / mapErr (T -> U, E -> U)
Invoke(f, v) == IF f = "inc" THEN v + 1 ELSE v * 2

Expected_map_always(x, f) ==
    Did(NoException, Expected_ofValue(Invoke(f, x.v)), <<<<f, x.v>>>>)

\* map(f)
Expected_map(x, f) ==
    IF Expected_hasValue(x)
    THEN Did(NoException, Expected_ofValue(Invoke(f, Expected_value(x).val)), <<<<f, Expected_value(x).val>>>>)
    ELSE IF Expected_error(x).exc # NoException THEN Did(Expected_error(x).exc, Valueless, <<>>)
    ELSE Did(NoException, Expected_ofError(Expected_error(x).val), <<>>)

\* mapErr(f)
Expected_mapErr(x, f) ==
    IF Expected_hasError(x)
    THEN Did(NoException, Expected_ofError(Invoke(f, Expected_error(x).val)), <<<<f, Expected_error(x).val>>>>)
    ELSE IF Expected_value(x).exc # NoException THEN Did(Expected_value(x).exc, Valueless, <<>>)
    ELSE Did(NoException, Expected_ofValue(Expected_value(x).val), <<>>)

\* the functions handed to andThen (T -> Expected<U, E>)
InvokeExpected(f, v) == IF f = "square" THEN Expected_ofValue(v * v) ELSE Expected_ofError(v)

Expected_andThen_always(x, f) ==
    Did(NoException, InvokeExpected(f, x.v), <<<<f, x.v>>>>)

\* andThen(f)
Expected_andThen(x, f) ==
    IF Expected_hasValue(x)
    THEN Did(NoException, InvokeExpected(f, Expected_value(x).val), <<<<f, Expected_value(x).val>>>>)
    ELSE IF Expected_error(x).exc # NoException THEN Did(Expected_error(x).exc, Valueless, <<>>)
    ELSE Did(NoException, Expected_ofError(Expected_error(x).val), <<>>)

\* r.andThen(f1).andThen(f2)...: each link is called on the temporary the link
\* before it returned; an exception ends the full expression
RECURSIVE Chain(_, _, _)
Chain(x, fs, calls) ==
    IF fs = <<>> THEN Did(NoException, x, calls)
    ELSE LET d == Expected_andThen(x, Head(fs))
         IN  IF d.exc # NoException THEN Did(d.exc, Valueless, calls \o d.calls)
             ELSE Chain(d.val, Tail(fs), calls \o d.calls)

\* an exception that leaves a noexcept function: std::terminate
terminate == Exception("terminate", "")

\* operator==(const Expected&, const Expected&) noexcept
Expected_eq(lhs, rhs) ==
    IF Expected_hasValue(lhs) = Expected_hasValue(rhs)
    THEN IF Expected_value(lhs).exc # NoException \/ Expected_value(rhs).exc # NoException
         THEN Did(terminate, FALSE, <<>>)
         ELSE Did(NoException, Expected_value(lhs).val = Expected_value(rhs).val, <<>>)
    ELSE IF Expected_hasError(lhs) # Expected_hasError(rhs) THEN Did(NoException, FALSE, <<>>)
    ELSE IF Expected_error(lhs).exc # NoException \/ Expected_error(rhs).exc # NoException
         THEN Did(terminate, FALSE, <<>>)
         ELSE Did(NoException, Expected_error(lhs).val = Expected_error(rhs).val, <<>>)

\* ------------------------------------------------------------- time values
\* nanoseconds in a second (std::nano)
NsPerSec == 1000000000

\* struct timespec
Timespec(sec, nsec) == [tv_sec |-> sec, tv_nsec |-> nsec]

\* an Emacs timestamp (TICKS . HZ)
LispTime(ticks, hz) == Obj("cons", ticks, "", <<LispInt(hz)>>)

\* std::chrono::duration_cast<std::chrono::seconds>(ns): integer division of
\* the count, which truncates toward zero
duration_cast_seconds(ns) == IF ns >= 0 THEN ns \div NsPerSec ELSE -((-ns) \div NsPerSec)

\* make_time: the timestamp of a valid timespec (0 <= tv_nsec < 10^9); for
\* another timespec the host either computes tv_sec * 10^9 + tv_nsec all the
\* same (lenient) or signals
h_make_time(p, ts, lenient) ==
    IF p.status # "Return" THEN HostRet(NULLV, p)
    ELSE IF (ts.tv_nsec >= 0 /\ ts.tv_nsec < NsPerSec) \/ lenient
    THEN HostRet(LispTime(ts.tv_sec * NsPerSec + ts.tv_nsec, NsPerSec), p)
    ELSE HostRet(NULLV, Error("Signal", LispSym("error"), LispList(<<>>)))

\* extract_time: the timespec of a timestamp, tv_nsec in 0 .. 10^9 - 1
h_extract_time(p, v) ==
    IF p.status # "Return" THEN HostRet(Timespec(0, 0), p)
    ELSE IF v.tag # "cons" THEN HostRet(Timespec(0, 0), WrongType("consp", v))
    ELSE HostRet(Timespec(v.num \div NsPerSec, v.num % NsPerSec), p)

\* the timespec make<Time>(secs, ns) hands to the host
MakeTimespec(secs, ns) == Timespec(secs, ns)

\* Env::make<Time>(secs, ns)
Env_makeTimeParts(p, secs, ns, lenient) ==
    YAPDF_EMACS_APPLY_CHECK(h_make_time(p, MakeTimespec(secs, ns), lenient))

\* Env::make<Time>(ns)
Env_makeTime(p, ns, lenient) ==
    Env_makeTimeParts(p, duration_cast_seconds(ns), ns - duration_cast_seconds(ns) * NsPerSec, lenient)

\* the timespec Env::make<Time>(ns) hands to the host
Env_makeTime_timespec(ns) ==
    MakeTimespec(duration_cast_seconds(ns), ns - duration_cast_seconds(ns) * NsPerSec)

\* Value::as<Time>
Value_asTime(p, v) ==
    LET ts == YAPDF_EMACS_APPLY_CHECK(h_extract_time(p, v))
    IN  IF ~ts.x.ok THEN ts
        ELSE Out(Ok(CInt(ts.x.val.tv_sec * NsPerSec + ts.x.val.tv_nsec)), ts.pending)

\* ------------------------------------------------- strings, byte by byte
\* a multibyte Lisp string: its characters (Unicode scalar values)
LispMultibyte(chars) == [tag |-> "string", chars |-> chars]

\* UTF-8 of one or two bytes
RECURSIVE ValidUTF8(_)
ValidUTF8(bs) ==
    IF bs = <<>> THEN TRUE
    ELSE IF bs[1] < 128 THEN ValidUTF8(Tail(bs))
    ELSE IF bs[1] \in 194..223 /\ Len(bs) >= 2 /\ bs[2] \in 128..191
         THEN ValidUTF8(SubSeq(bs, 3, Len(bs)))
    ELSE FALSE

RECURSIVE utf8_decode(_)
utf8_decode(bs) ==
    IF bs = <<>> THEN <<>>
    ELSE IF bs[1] < 128 THEN <<bs[1]>> \o utf8_decode(Tail(bs))
    ELSE <<(bs[1] - 192) * 64 + (bs[2] - 128)>> \o utf8_decode(SubSeq(bs, 3, Len(bs)))

RECURSIVE utf8_encode(_)
utf8_encode(chars) ==
    IF chars = <<>> THEN <<>>
    ELSE IF chars[1] < 128 THEN <<chars[1]>> \o utf8_encode(Tail(chars))
    ELSE <<192 + (chars[1] \div 64), 128 + (chars[1] % 64)>> \o utf8_encode(Tail(chars))

\* make_string(s, len): the same scalar values if the block is valid UTF-8,
\* otherwise a string of unspecified contents
h_make_string_bytes(p, bs, unspecified) ==
    IF p.status # "Return" THEN HostRet(NULLV, p)
    ELSE IF ValidUTF8(bs) THEN HostRet(LispMultibyte(utf8_decode(bs)), p)
    ELSE HostRet(LispMultibyte(unspecified), p)

\* copy_string_contents(value, nullptr, &len): len becomes the size of the
\* UTF-8 representation plus the terminator
h_copy_string_contents_len(p, v) ==
    IF p.status # "Return" THEN HostRet(0, p)
    ELSE IF v.tag # "string" THEN HostRet(0, WrongType("stringp", v))
    ELSE HostRet(Len(utf8_encode(v.chars)) + 1, p)

\* copy_string_contents(value, buf, &len): buf receives the UTF-8
\* representation and the terminator; the bytes of buf after them stay
h_copy_string_contents_buf(p, v, buf) ==
    IF p.status # "Return" THEN HostRet(buf, p)
    ELSE IF v.tag # "string" THEN HostRet(buf, WrongType("stringp", v))
    ELSE LET out == utf8_encode(v.chars) \o <<0>>
         IN  HostRet([i \in 1..Len(buf) |-> IF i <= Len(out) THEN out[i] ELSE buf[i]], p)

\* Env::make<Value::Type::String>(s, len)
Env_makeStringBytes(p, bs, unspecified) ==
    YAPDF_EMACS_APPLY_CHECK(h_make_string_bytes(p, bs, unspecified))

\* std::string s(len, '\0')
StdString(len) == [i \in 1..len |-> 0]

\* Value::as<Value::Type::String>: the length, the copy, then pop_back
Value_asStringBytes_keepTerminator(p, v) ==
    LET len == YAPDF_EMACS_APPLY_CHECK(h_copy_string_contents_len(p, v))
        copy == YAPDF_EMACS_APPLY_CHECK(
                    h_copy_string_contents_buf(len.pending, v, StdString(len.x.val)))
    IN  IF ~len.x.ok THEN len ELSE copy

Value_asStringBytes(p, v) ==
    LET len == YAPDF_EMACS_APPLY_CHECK(h_copy_string_contents_len(p, v))
        copy == YAPDF_EMACS_APPLY_CHECK(
                    h_copy_string_contents_buf(len.pending, v, StdString(len.x.val)))
    IN  IF ~len.x.ok THEN len
        ELSE IF ~copy.x.ok THEN copy
        ELSE IF copy.x.val # <<>>
             THEN Out(Ok(SubSeq(copy.x.val, 1, Len(copy.x.val) - 1)), copy.pending)
        ELSE copy

\* ------------------------------------------- registry and module load
\* a descriptor: DefunRawFunction, DefunWrappedFunction (min_arity_, max_arity_)
\* or DefunUniversalFunction (the parameter types Args... of f_)
Defun(form, name, min, max, Args) ==
    [form |-> form, name |-> name, min |-> min, max |-> max, sig |-> Args]

\* one call of the host made while the module loads, and whether it succeeded
HostCall(call, name, ok) == [call |-> call, name |-> name, ok |-> ok]

\* what the host's defalias or provide leaves behind
Bound(name) == HostRet(LispSym(name), NoExit)

Refused == HostRet(NULLV, Error("Signal", LispSym("error"), LispList(<<>>)))

\* Defun...::def(e); expect() of an error-state Result throws BadExpectedAccess
\* out of a noexcept function: ok is FALSE, std::terminate follows
DefunFunction_def(p, d, outcome) ==
    LET fn == IF d.form = "universal" THEN Env_makeUniversal(p, d.sig)
              ELSE Env_makeFunction(p, d.min, d.max, d.form)
        made == HostCall("make_function", d.name, fn.x.ok)
    IN  IF ~fn.x.ok THEN [ok |-> FALSE, log |-> <<made>>, pending |-> fn.pending]
        ELSE LET b == Env_defalias(fn.pending, d.name, fn.x.val, outcome)
             IN  [ok |-> b.x.ok, log |-> <<made, HostCall("defalias", d.name, b.x.ok)>>,
                  pending |-> b.pending]

\* DefunRegistry::add
DefunRegistry_add(defuns, defun) == Append(defuns, defun)

DefunRegistry_clear_popBack(defuns) == SubSeq(defuns, 1, Len(defuns) - 1)

\* DefunRegistry::clear
DefunRegistry_clear(defuns) == <<>>

\* DefunRegistry::def: for (auto& p : defuns_) p->def(e); the host refuses to
\* bind the names in `refused'
RECURSIVE DefunRegistry_def_reversed(_, _, _)
DefunRegistry_def_reversed(p, defuns, refused) ==
    IF defuns = <<>> THEN [ok |-> TRUE, log |-> <<>>, pending |-> p]
    ELSE LET d == defuns[Len(defuns)]
             first == DefunFunction_def(p, d, IF d.name \in refused THEN Refused ELSE Bound(d.name))
             rest == DefunRegistry_def_reversed(first.pending, SubSeq(defuns, 1, Len(defuns) - 1), refused)
         IN  IF ~first.ok THEN first
             ELSE [ok |-> rest.ok, log |-> first.log \o rest.log, pending |-> rest.pending]

RECURSIVE DefunRegistry_def(_, _, _)
DefunRegistry_def(p, defuns, refused) ==
    IF defuns = <<>> THEN [ok |-> TRUE, log |-> <<>>, pending |-> p]
    ELSE LET d == Head(defuns)
             first == DefunFunction_def(p, d, IF d.name \in refused THEN Refused ELSE Bound(d.name))
             rest == DefunRegistry_def(first.pending, Tail(defuns), refused)
         IN  IF ~first.ok THEN first
             ELSE [ok |-> rest.ok, log |-> first.log \o rest.log, pending |-> rest.pending]

\* sizeof(*runtime) and sizeof(*env) the module was compiled against
SizeofRuntime == 2

SizeofEnv == 2

\* the state of the load: before emacs_module_init, returned with a status,
\* or the process terminated
Load(phase, status, log) == [phase |-> phase, status |-> status, log |-> log]

NotLoaded == Load("static", -1, <<>>)

NoRuntime == [size |-> 0, envsize |-> 0]

\* x and y before they are constructed
NoExpected == [x |-> Valueless, y |-> Valueless, made |-> FALSE,
               last |-> [name |-> "none", selects |-> -1, threw |-> FALSE],
               saw |-> [name |-> "none", x |-> Valueless, y |-> Valueless, fs |-> <<>>, s |-> "",
                        did |-> Did(NoException, 0, <<>>)]]

\* no Env::call yet
NoCall == [made |-> FALSE, pre |-> NoExit, F |-> "-", f |-> NULLV, as |-> <<>>,
           did |-> Called(Ok(NULLV), NoExit, <<>>, <<>>)]

NoTime == [phase |-> "none", pre |-> NoExit, overload |-> "-", ns |-> 0, ts |-> Timespec(0, 0), made |-> Ok(NULLV),
           out |-> Ok(NULLV)]

NoMessage == [made |-> FALSE, pre |-> NoExit, text |-> <<>>, prepared |-> FALSE,
              did |-> Messaged(0, Called(Ok(NULLV), NoExit, <<>>, <<>>))]

\* no string made yet
NoString == [phase |-> "none", s |-> <<>>, made |-> Ok(NULLV), out |-> Ok(<<>>)]

\* emacs_module_init for a runtime of size rsize and an environment of size
\* esize; the size checks in the order of the mutant
emacs_module_init_envFirst(rsize, esize, defuns, refused) ==
    IF esize < SizeofEnv THEN Load("returned", 2, <<>>)
    ELSE IF rsize < SizeofRuntime THEN Load("returned", 1, <<>>)
    ELSE Load("returned", 0, <<>>)

emacs_module_init(rsize, esize, defuns, refused) ==
    IF rsize < SizeofRuntime THEN Load("returned", 1, <<>>)
    ELSE IF esize < SizeofEnv THEN Load("returned", 2, <<>>)
    ELSE LET gtk == <<HostCall("init_gtkmm_internals", "", TRUE)>>
             defs == DefunRegistry_def(NoExit, defuns, refused)
             feature == Env_provide(defs.pending, "yapdf-module",
                                    IF "yapdf-module" \in refused THEN Refused
                                    ELSE Bound("yapdf-module"))
             provided == <<HostCall("provide", "yapdf-module", feature.x.ok)>>
         IN  IF ~defs.ok THEN Load("terminated", -1, gtk \o defs.log)
             ELSE IF ~feature.x.ok THEN Load("terminated", -1, gtk \o defs.log \o provided)
             ELSE Load("returned", 0, gtk \o defs.log \o provided)

\* ------------------------------------------------------------- inputs
\* errors a native function builds by hand
E1 == Error("Signal", LispSym("wrong-type"), LispList(<<>>))

T1 == Error("Throw", LispSym("tag"), LispInt(1))

UserErrors == {E1, T1}

\* handles the host passes as arguments
ArgValues == {LispInt(1), LispInt(IntMax + 1), LispInt(IntmaxMax + 1), LispString("foo"), LispSym("nil")}

ArgLists == {<<>>} \cup {<<a>> : a \in ArgValues} \cup {<<LispInt(1), a>> : a \in ArgValues}

\* the wrapped trampoline only wraps its arguments
WrappedArgLists == {<<>>, <<LispInt(1)>>, <<LispString("foo"), LispInt(1)>>}

\* universal functions R (*)(Env&, Args...): their parameter types and return type
Function(s, r) == [sig |-> s, rtype |-> r]

Functions == {Function(<<>>, "void"), Function(<<"int">>, "int"), Function(<<"intmax">>, "Expected"),
              Function(<<"string">>, "string"), Function(<<"int", "string">>, "void")}

\* left-to-right and right-to-left evaluation of the arguments
Orders(n) == {[i \in 1..n |-> i], [i \in 1..n |-> n + 1 - i]}

Messages == {"m1"}

ThrownTypes == {"overflow_error", "underflow_error", "range_error", "out_of_range", "bad_alloc",
                "bad_array_new_length", "runtime_error"}

\* what a native function may throw: std exceptions, a BadExpectedAccess built
\* by expect(s), and an object that is no std::exception (throw 42)
Thrown == {Exception(t, m) : t \in ThrownTypes, m \in Messages}
            \cup {Exception("BadExpectedAccess", "m1"), Exception("int", "")}

NoHandle == Obj("-", 0, "", <<>>)

NoResult == Ok(NoHandle)

NoOp == [name |-> "none", pre |-> NoExit, err |-> NoExit, arg |-> NoHandle, kind |-> "-",
         n |-> 0, invoked |-> FALSE]

NoExitInfo == [kind |-> "none", x |-> NoResult, exc |-> NoException, atExit |-> NoExit]

\* -------------------------------------------------------------- state
VARIABLES
    pc,       \* "host": no module function is active; "native": inside f
    form,     \* "none", "wrapped" or "universal": the trampoline of the call
    sig,      \* universal: the parameter types Args...
    rtype,    \* universal: the return type R
    args,     \* args[] as passed by the host
    nat,      \* universal: the native arguments handed to f
    pending,  \* the pending-error slot of the emacs_env of the call
    res,      \* the Expected the native code holds from its last checked operation
    op,       \* the last context operation of f: its name, the slot before it, and the
              \* Error it was given (signalError, throwError, report) or gave back
              \* (getError; checkError gives only the status)
    steps,    \* context operations performed by f so far
    exit,     \* how f ended and the slot at that moment
    invoked,  \* whether f was invoked in this call
    escaped,  \* whether a C++ exception left the trampoline
    ret,      \* the handle the trampoline returned to the host
    vec,      \* the items of the vector f works on
    registry, \* DefunRegistry::defuns_
    load,     \* how far the load of the module is, its status and its host calls
    runtime,  \* the size fields of the emacs_runtime and emacs_env of the load
    strs,     \* a string on its way: the bytes given, the Lisp string made of
              \* them, and the Result of its extraction
    expd,     \* two Expected<T, E> objects x and y, the last operation that wrote x
              \* (its name, the state it selects, whether it threw) and the last
              \* call that only read them
    calld,    \* one Env::call: the slot before it, its arguments and what it did
    timed,    \* one time value on its way to the host and back
    msgd      \* one Env::message: its text and what it did

\* the state of a call of a module function
call == <<pc, form, sig, rtype, args, nat, pending, res, op, steps, exit, invoked, escaped, ret, vec>>

\* the state outside calls
\* the state of the operations checked on their own
more == <<calld, timed, msgd>>

side == <<registry, load, runtime, strs, expd, more>>

vars == <<call, side>>

\* the vector f makes for itself
VecInit == <<LispInt(1), LispString("foo")>>

Init ==
    /\ pc = "host"
    /\ form = "none"
    /\ sig = <<>>
    /\ rtype = "-"
    /\ args = <<>>
    /\ nat = <<>>
    /\ pending = NoExit
    /\ res = NoResult
    /\ op = NoOp
    /\ steps = 0
    /\ exit = NoExitInfo
    /\ invoked = FALSE
    /\ escaped = FALSE
    /\ ret = NoHandle
    /\ vec = VecInit
    /\ registry = <<>>
    /\ load = NotLoaded
    /\ runtime = NoRuntime
    /\ strs = NoString
    /\ expd = NoExpected
    /\ calld = NoCall
    /\ timed = NoTime
    /\ msgd = NoMessage

\* the host enters a function through a fresh emacs_env
Enter(f, s, r, argv) ==
    /\ form' = f
    /\ sig' = s
    /\ rtype' = r
    /\ args' = argv
    /\ res' = NoResult
    /\ op' = NoOp
    /\ steps' = 0
    /\ vec' = VecInit
    /\ UNCHANGED side

\* the trampoline returns to the host after an exception was thrown inside its try block
Caught(hs, p, exc, x) ==
    LET c == CatchAll(hs, p, exc)
    IN  /\ pc' = "host"
        /\ exit' = [kind |-> "exception", x |-> x, exc |-> exc, atExit |-> p]
        /\ pending' = c.pending
        /\ escaped' = c.escaped
        /\ ret' = IF c.escaped THEN NoHandle ELSE NULLV

\* Env::trampoline up to the call of f; oom: vs.reserve(nargs) throws
CallWrapped(argv, oom) ==
    /\ pc = "host"
    /\ Enter("wrapped", <<>>, "Expected", argv)
    /\ IF oom
       THEN /\ Caught(WrappedHandlers, NoExit, Exception("bad_alloc", "std::bad_alloc"), NoResult)
            /\ invoked' = FALSE
            /\ nat' = <<>>
       ELSE /\ pc' = "native"
            /\ nat' = argv
            /\ pending' = NoExit
            /\ invoked' = TRUE
            /\ exit' = NoExitInfo
            /\ escaped' = FALSE
            /\ ret' = NoHandle

\* the universal lambda up to the call of f, for a function the host made with
\* Env::make<Function>(f, docstring) and dispatches: assert(arity == nargs)
\* aborts the process, otherwise the arguments are marshalled
CallUniversal(s, r, argv, order) ==
    /\ pc = "host"
    /\ Env_makeUniversal(NoExit, s).x.ok
    /\ Dispatches(Env_makeUniversal(NoExit, s).x.val, Len(argv))
    /\ Enter("universal", s, r, argv)
    /\ LET m == Marshal(s, NoExit, argv, order, [i \in 1..Len(s) |-> NULLV])
       IN  IF Len(argv) # Len(s)
           THEN /\ pc' = "aborted"
                /\ nat' = <<>>
                /\ pending' = NoExit
                /\ invoked' = FALSE
                /\ exit' = NoExitInfo
                /\ escaped' = FALSE
                /\ ret' = NoHandle
           ELSE IF ~m.ok
           THEN /\ Caught(UniversalHandlers, m.pending,
                          Exception("BadExpectedAccess", "Bad expected access"), m.failed)
                /\ invoked' = FALSE
                /\ nat' = <<>>
           ELSE /\ pc' = "native"
                /\ nat' = m.vals
                /\ pending' = m.pending
                /\ invoked' = TRUE
                /\ exit' = NoExitInfo
                /\ escaped' = FALSE
                /\ ret' = NoHandle

\* ---- the body of f: operations on the context
\* one operation; it is remembered by its name, the slot before it, the Error
\* it was given or gave back, the handle it was applied to, the Kind or the
\* index or argument count asked for, and whether a callee was invoked
StepOn(name, pre, err, arg, kind, n, inv) ==
    /\ pc = "native"
    /\ steps < MaxSteps
    /\ steps' = steps + 1
    /\ op' = [name |-> name, pre |-> pre, err |-> err, arg |-> arg, kind |-> kind,
              n |-> n, invoked |-> inv]
    /\ UNCHANGED side
    /\ UNCHANGED <<pc, form, sig, rtype, args, nat, exit, invoked, escaped, ret>>

Step(name, pre, err) ==
    /\ StepOn(name, pre, err, NoHandle, "-", 0, FALSE)
    /\ UNCHANGED vec

SignalError(err) ==
    /\ Step("signalError", pending, err)
    /\ pending' = Env_signalError(pending, err)
    /\ UNCHANGED res

ThrowError(err) ==
    /\ Step("throwError", pending, err)
    /\ pending' = Env_throwError(pending, err)
    /\ UNCHANGED res

Report(err) ==
    /\ Step("report", pending, err)
    /\ pending' = Error_report(pending, err)
    /\ UNCHANGED res

ClearError ==
    /\ Step("clearError", pending, NoExit)
    /\ pending' = Env_clearError(pending)
    /\ UNCHANGED res

CheckError ==
    /\ Step("checkError", pending, Error(Env_checkError(pending).x, NULLV, NULLV))
    /\ pending' = Env_checkError(pending).pending
    /\ UNCHANGED res

GetError ==
    /\ Step("getError", pending, Env_getError(pending).x)
    /\ pending' = Env_getError(pending).pending
    /\ UNCHANGED res

\* a Result-returning operation built on YAPDF_EMACS_APPLY_CHECK
Checked(name, o) ==
    /\ Step(name, pending, NoExit)
    /\ res' = o.x
    /\ pending' = o.pending

Intern == Checked("intern", Env_intern(pending, "nil"))

Make == Checked("make", Env_makeInt(pending, 22))

\* a Result-returning operation on the handle v
CheckedOn(name, v, kind, n, inv, o) ==
    /\ StepOn(name, pending, NoExit, v, kind, n, inv)
    /\ res' = o.x
    /\ pending' = o.pending
    /\ UNCHANGED vec

As(v) ==
    \/ CheckedOn("as", v, "Int", 0, FALSE, Value_asInt(pending, v))
    \/ CheckedOn("as", v, "Float", 0, FALSE, Value_asFloat(pending, v))
    \/ CheckedOn("as", v, "String", 0, FALSE, Value_asString(pending, v))

At(v, idx) == CheckedOn("at", v, "-", idx, FALSE, Value_at(pending, v, idx))

\* const Value x = v[idx];
VecGet(v, idx) ==
    /\ StepOn("vec_get", pending, NoExit, v, "-", idx, FALSE)
    /\ pending' = VectorProxy_get(pending, v, idx).pending
    /\ UNCHANGED <<res, vec>>

\* v[idx] = x; on the vector of f
VecSet(idx, x) ==
    /\ StepOn("vec_set", pending, NoExit, LispVector(vec), "-", idx, FALSE)
    /\ pending' = VectorProxy_set(pending, LispVector(vec), idx, x).pending
    /\ vec' = VectorProxy_set(pending, LispVector(vec), idx, x).ret
    /\ UNCHANGED res

Call(xs) == Checked("call", Env_callList(pending, xs))

\* Env::call(fn, xs...) of a module function
CallFunction(fn, xs, outcome) ==
    CheckedOn("call", fn, "-", Len(xs), h_funcall(pending, fn, xs, outcome).invoked,
              Env_call(pending, fn, xs, outcome))

\* ---- the end of f
\* the locals of f are gone when it has ended
Leave ==
    /\ res' = NoResult
    /\ op' = NoOp
    /\ steps' = 0
    /\ vec' = VecInit
    /\ UNCHANGED <<form, sig, rtype, args, nat, invoked>>
    /\ UNCHANGED side

Finish(kind, x, exc, r) ==
    /\ pc = "native"
    /\ pc' = "host"
    /\ exit' = [kind |-> kind, x |-> x, exc |-> exc, atExit |-> pending]
    /\ pending' = r.pending
    /\ ret' = r.ret
    /\ escaped' = FALSE
    /\ Leave

\* f returns a Value
WrappedReturnValue(v) ==
    /\ form = "wrapped"
    /\ Finish("value", Ok(v), NoException, Env_trampoline(pending, Ok(v)))

\* f returns Unexpected(err)
WrappedReturnError(err) ==
    /\ form = "wrapped"
    /\ Finish("error", Unexpected(err), NoException, Env_trampoline(pending, Unexpected(err)))

\* f returns normally a native value r (an Expected<Value, Error> when R is that)
UniversalReturn(r) ==
    /\ form = "universal"
    /\ Finish("normal", r, NoException, UniversalTrampoline(rtype, pending, r))

\* f throws
Throw(exc) ==
    /\ pc = "native"
    /\ Caught(IF form = "wrapped" THEN WrappedHandlers ELSE UniversalHandlers, pending, exc, NoResult)
    /\ Leave

\* f calls value() or error() on the Expected it holds
Access(which) ==
    /\ pc = "native"
    /\ res # NoResult
    /\ IF Expected_access(res, which) # NoException
       THEN /\ Caught(IF form = "wrapped" THEN WrappedHandlers ELSE UniversalHandlers,
                      pending, Expected_access(res, which), NoResult)
            /\ Leave
       ELSE /\ Step(which, pending, NoExit)
            /\ UNCHANGED <<pending, res>>

\* values a universal f may return, by return type
NativeResults(R) ==
    CASE R = "void" -> {Ok(CVoid)}
      [] R = "int" -> {Ok(CInt(2))}
      [] R = "string" -> {Ok(CString("bar"))}
      [] OTHER -> {Ok(LispInt(22))} \cup {Unexpected(e) : e \in UserErrors}
                    \cup (IF res # NoResult THEN {res} ELSE {})

\* a module function f has made, as the Function test does
ModuleFunction == Env_makeFunction(NoExit, 1, 1, "wrapped").x.val

\* what a dispatched callee leaves behind: a value, or a nonlocal exit
Outcomes == {HostRet(LispInt(22), NoExit)} \cup {HostRet(NULLV, e) : e \in UserErrors}

\* handles and errors f has at hand
Handles == {args[i] : i \in 1..Len(args)} \cup {LispVector(vec)}

Errors == UserErrors \cup (IF ~res.ok THEN {res.err} ELSE {})

Next ==
    \/ \E argv \in WrappedArgLists, oom \in BOOLEAN : CallWrapped(argv, oom)
    \/ \E f \in Functions, argv \in ArgLists :
          \E order \in Orders(Len(f.sig)) : CallUniversal(f.sig, f.rtype, argv, order)
    \/ \E err \in UserErrors : SignalError(err)
    \/ \E err \in UserErrors : ThrowError(err)
    \/ \E err \in Errors : Report(err)
    \/ ClearError
    \/ CheckError
    \/ GetError
    \/ Intern
    \/ Make
    \/ \E v \in Handles : As(v)
    \/ \E v \in Handles, idx \in {0, 2} : At(v, idx)
    \/ \E v \in Handles, idx \in {0, 2} : VecGet(v, idx)
    \/ \E idx \in {0, 2} : VecSet(idx, LispSym("nil"))
    \/ \E v \in Handles : Call(<<v>>)
    \/ \E xs \in {<<>>, <<LispInt(1)>>, <<LispInt(1), LispInt(1)>>}, outcome \in Outcomes :
          CallFunction(ModuleFunction, xs, outcome)
    \/ \E v \in Handles : WrappedReturnValue(v)
    \/ \E err \in Errors : WrappedReturnError(err)
    \/ \E r \in NativeResults(rtype) : UniversalReturn(r)
    \/ \E exc \in Thrown : Throw(exc)
    \/ \E which \in {"value", "error"} : Access(which)

Spec == Init /\ [][Next]_vars

\* ------------------------------------------------- loading the module
\* descriptors a module registers: the second has max_arity < min_arity
Defuns ==
    {Defun("raw", "f", 0, 1, <<>>), Defun("wrapped", "g", 2, 1, <<>>),
     Defun("universal", "h", 0, 0, <<"int">>)}

\* names the host may refuse to bind or to provide
Names == {d.name : d \in Defuns} \cup {"yapdf-module"}

\* YAPDF_EMACS_DEFUN at static initialization: DefunRegistry::registra
Registra(defun) ==
    /\ load.phase = "static"
    /\ Len(registry) < MaxDefuns
    /\ registry' = DefunRegistry_add(registry, defun)
    /\ UNCHANGED <<load, runtime, strs, expd, call, more>>

\* the host loads the module
ModuleInit(rsize, esize, refused) ==
    /\ load.phase = "static"
    /\ runtime' = [size |-> rsize, envsize |-> esize]
    /\ load' = emacs_module_init(rsize, esize, registry, refused)
    /\ UNCHANGED <<registry, strs, expd, call, more>>

\* DefunRegistry::getInstance().clear() between two simulations of a load
Clear ==
    /\ load.phase \in {"static", "returned"}
    /\ registry # <<>> \/ load.phase = "returned"
    /\ registry' = DefunRegistry_clear(registry)
    /\ load' = NotLoaded
    /\ runtime' = NoRuntime
    /\ UNCHANGED <<strs, expd, call, more>>

NextLoad ==
    \/ \E defun \in Defuns : Registra(defun)
    \/ \E rsize \in {SizeofRuntime - 1, SizeofRuntime}, esize \in {SizeofEnv - 1, SizeofEnv + 1},
          refused \in SUBSET Names : ModuleInit(rsize, esize, refused)
    \/ Clear

SpecLoad == Init /\ [][NextLoad]_vars

\* ---------------------------------------------------- strings round trip
\* NUL, an ASCII letter, the lead byte and the continuation byte of U+00E9
Bytes == {0, 97, 195, 169}

RECURSIVE Seqs(_, _)
Seqs(S, n) ==
    IF n = 0 THEN {<<>>}
    ELSE Seqs(S, n - 1) \cup {Append(q, x) : q \in {r \in Seqs(S, n - 1) : Len(r) = n - 1}, x \in S}

\* what the host may make of a block that is not valid UTF-8
Unspecified(bs) == IF ValidUTF8(bs) THEN {<<>>} ELSE Seqs({0, 97, 233}, Len(bs))

\* make<String>(s, len)
MakeStringBytes(bs, unspecified) ==
    /\ strs.phase = "none"
    /\ strs' = [strs EXCEPT !.phase = "made", !.s = bs,
                            !.made = Env_makeStringBytes(NoExit, bs, unspecified).x]
    /\ UNCHANGED <<registry, load, runtime, expd, call, more>>

\* as<String>() of the Value made
AsStringBytes ==
    /\ strs.phase = "made"
    /\ strs.made.ok
    /\ strs' = [strs EXCEPT !.phase = "extracted",
                            !.out = Value_asStringBytes(NoExit, strs.made.val).x]
    /\ UNCHANGED <<registry, load, runtime, expd, call, more>>

NextString ==
    \/ \E bs \in Seqs(Bytes, MaxLen) : \E unspecified \in Unspecified(bs) :
          MakeStringBytes(bs, unspecified)
    \/ AsStringBytes

SpecString == Init /\ [][NextString]_vars

\* ---------------------------------------------------- one Env::call
\* at most MaxArgs arguments in one call
MaxArgs == 2

\* the arguments given: an integer, a string, a Value, and Results of earlier
\* operations handed over as they are
CallArgs == {Arg("int", Ok(CInt(1))), Arg("string", Ok(CString("a"))), Arg("Value", Ok(CValue(LispInt(7)))),
             Arg("Expected", Ok(LispInt(8))), Arg("Expected", Unexpected(E1)), Arg("Expected", Unexpected(T1))}

CallArgLists == UNION {[1..n -> CallArgs] : n \in 0..MaxArgs}

\* an error is pending when the call starts
Raise(err) ==
    /\ ~calld.made /\ calld.pre = NoExit
    /\ calld' = [calld EXCEPT !.pre = err]
    /\ UNCHANGED <<registry, load, runtime, strs, expd, timed, msgd, call>>

\* env.call(f, as...)
CallWith(F, f, as, outcome) ==
    /\ ~calld.made
    /\ calld' = [calld EXCEPT !.made = TRUE, !.F = F, !.f = f, !.as = as,
                              !.did = Env_callArgs(calld.pre, F, f, as, outcome)]
    /\ UNCHANGED <<registry, load, runtime, strs, expd, timed, msgd, call>>

CallByName(as, outcome) == CallWith("const char*", CString("list"), as, outcome)

CallByValue(as, outcome) == CallWith("Value", LispSym("list"), as, outcome)

CallOutcomes == {HostRet(LispInt(22), NoExit), HostRet(NULLV, E1)}

NextCall ==
    \/ \E err \in UserErrors : Raise(err)
    \/ \E as \in CallArgLists, outcome \in CallOutcomes : CallByName(as, outcome)
    \/ \E as \in CallArgLists, outcome \in CallOutcomes : CallByValue(as, outcome)

SpecCall == Init /\ [][NextCall]_vars

\* ------------------------------------------------- time values round trip
\* whole and broken seconds, negative ones included
TimeValues == {sec * NsPerSec + frac : sec \in -1..1, frac \in {-999999999, -500000000, -1, 0, 1, 50, 999999999}}

\* an error is pending when the time value is made
RaiseBeforeTime(err) ==
    /\ timed.phase = "none" /\ timed.pre = NoExit
    /\ timed' = [timed EXCEPT !.pre = err]
    /\ UNCHANGED <<registry, load, runtime, strs, expd, calld, msgd, call>>

\* auto val = e.make<Value::Type::Time>(ns);
MakeTime(ns, lenient) ==
    /\ timed.phase = "none"
    /\ timed' = [timed EXCEPT !.phase = "made", !.overload = "ns", !.ns = ns,
                              !.ts = Env_makeTime_timespec(ns),
                              !.made = Env_makeTime(timed.pre, ns, lenient).x]
    /\ UNCHANGED <<registry, load, runtime, strs, expd, calld, msgd, call>>

\* auto val = e.make<Value::Type::Time>(secs, ns);
MakeTimeParts(secs, ns, lenient) ==
    /\ timed.phase = "none"
    /\ timed' = [timed EXCEPT !.phase = "made", !.overload = "secs, ns", !.ns = secs * NsPerSec + ns,
                              !.ts = MakeTimespec(secs, ns),
                              !.made = Env_makeTimeParts(timed.pre, secs, ns, lenient).x]
    /\ UNCHANGED <<registry, load, runtime, strs, expd, calld, msgd, call>>

\* val.value().as<Value::Type::Time>();
AsTime ==
    /\ timed.phase = "made" /\ timed.made.ok
    /\ timed' = [timed EXCEPT !.phase = "extracted", !.out = Value_asTime(NoExit, timed.made.val).x]
    /\ UNCHANGED <<registry, load, runtime, strs, expd, calld, msgd, call>>

NextTime ==
    \/ \E err \in UserErrors : RaiseBeforeTime(err)
    \/ \E ns \in TimeValues, lenient \in BOOLEAN : MakeTime(ns, lenient)
    \/ \E secs \in -1..1, ns \in {-1, 0, 50}, lenient \in BOOLEAN : MakeTimeParts(secs, ns, lenient)
    \/ AsTime

SpecTime == Init /\ [][NextTime]_vars

\* ------------------------------------------------------- one Env::message
\* the bytes of the formatted text: two ASCII letters and one byte above 127
TextBytes == {97, 104, 200}

\* an error is pending when the message is sent
RaiseBeforeMessage(err) ==
    /\ ~msgd.made /\ msgd.pre = NoExit
    /\ msgd' = [msgd EXCEPT !.pre = err]
    /\ UNCHANGED <<registry, load, runtime, strs, expd, calld, timed, call>>

\* env.message(fmt, ...);
Message(text, sized, allocated, formatted, charSigned, outcome) ==
    /\ ~msgd.made
    /\ msgd' = [msgd EXCEPT !.made = TRUE, !.text = text,
                            !.prepared = (sized /\ allocated /\ formatted),
                            !.did = Env_message(msgd.pre, text, sized, allocated, formatted, charSigned,
                                                outcome)]
    /\ UNCHANGED <<registry, load, runtime, strs, expd, calld, timed, call>>

NextMessage ==
    \/ \E err \in UserErrors : RaiseBeforeMessage(err)
    \/ \E text \in Seqs(TextBytes, MaxLen), sized \in BOOLEAN, allocated \in BOOLEAN, formatted \in BOOLEAN,
          charSigned \in BOOLEAN, outcome \in CallOutcomes :
          Message(text, sized, allocated, formatted, charSigned, outcome)

SpecMessage == Init /\ [][NextMessage]_vars

\* ------------------------------------------------- Expected<T, E> objects
\* values of T and of E
TValues == {10, 20}

EValues == {1, 2}

Constructed == {Expected_ofValue(v) : v \in TValues} \cup {Expected_ofError(e) : e \in EValues}

\* an operation on x that yields x2 (and y2)
Operate(name, selects, threw, x2, y2) ==
    /\ expd.made
    /\ expd' = [expd EXCEPT !.x = x2, !.y = y2, !.saw = NoExpected.saw,
                            !.last = [name |-> name, selects |-> selects, threw |-> threw]]
    /\ UNCHANGED <<registry, load, runtime, strs, call, more>>

\* Expected<T, E> x(...), y(...);
Construct(x, y) ==
    /\ ~expd.made
    /\ expd' = [expd EXCEPT !.x = x, !.y = y, !.made = TRUE,
                            !.last = [name |-> "construct", selects |-> x.index, threw |-> FALSE]]
    /\ UNCHANGED <<registry, load, runtime, strs, call, more>>

\* x = v;
AssignValue(v, throws) ==
    Operate("assignValue", 0, throws, Expected_assignValue(expd.x, v, throws), expd.y)

\* x = Unexpected(e);
AssignError(e, throws) ==
    Operate("assignError", 1, throws, Expected_assignError(expd.x, e, throws), expd.y)

\* x.emplace(v);
Emplace(v, throws) ==
    Operate("emplace", 0, throws, Expected_emplace(expd.x, v, throws), expd.y)

\* x = y;
Assign(throws) ==
    \E x2 \in Expected_assign(expd.x, expd.y, throws) :
        Operate("assign", expd.y.index, throws, x2, expd.y)

\* swap(x, y);
Swap(throws) ==
    \E xy \in Expected_swap(expd.x, expd.y, throws) :
        Operate("swap", expd.y.index, throws, xy[1], xy[2])

\* a call on x that leaves x and y as they are
Observe(name, fs, s, did) ==
    /\ expd.made
    /\ expd' = [expd EXCEPT !.saw = [name |-> name, x |-> expd.x, y |-> expd.y, fs |-> fs, s |-> s,
                                     did |-> did]]
    /\ UNCHANGED <<registry, load, runtime, strs, call, more>>

\* x.value();
ValueOf == Observe("value", <<>>, "", Expected_value(expd.x))

\* x.error();
ErrorOf == Observe("error", <<>>, "", Expected_error(expd.x))

\* x.expect(s);
Expect(s) == Observe("expect", <<>>, s, Expected_expect(expd.x, s))

\* x.expectErr(s);
ExpectErr(s) == Observe("expectErr", <<>>, s, Expected_expectErr(expd.x, s))

\* x.map(f);
Map(f) == Observe("map", <<f>>, "", Expected_map(expd.x, f))

\* x.mapErr(f);
MapErr(f) == Observe("mapErr", <<f>>, "", Expected_mapErr(expd.x, f))

\* x.andThen(f1).andThen(f2)...;
AndThen(fs) == Observe("andThen", fs, "", Chain(expd.x, fs, <<>>))

\* x == y;
Equal == Observe("==", <<>>, "", Expected_eq(expd.x, expd.y))

\* chains of at most MaxChain links
MaxChain == 2

Chains == UNION {[1..n -> {"square", "error"}] : n \in 1..MaxChain}

NextExpected ==
    \/ \E x \in Constructed, y \in Constructed : Construct(x, y)
    \/ \E v \in TValues, throws \in BOOLEAN : AssignValue(v, throws)
    \/ \E e \in EValues, throws \in BOOLEAN : AssignError(e, throws)
    \/ \E v \in TValues, throws \in BOOLEAN : Emplace(v, throws)
    \/ \E throws \in BOOLEAN : Assign(throws)
    \/ \E throws \in BOOLEAN : Swap(throws)
    \/ ValueOf
    \/ ErrorOf
    \/ \E s \in {"dummy"} : Expect(s)
    \/ \E s \in {"dummy"} : ExpectErr(s)
    \/ \E f \in {"inc", "dbl"} : Map(f)
    \/ \E f \in {"inc", "dbl"} : MapErr(f)
    \/ \E fs \in Chains : AndThen(fs)
    \/ Equal

SpecExpected == Init /\ [][NextExpected]_vars

\* ================================================================ claims
\* the Signal a trampoline requests for condition `cond' and message `msg'
SignalFor(cond, msg) == Error("Signal", LispSym(cond), LispList(<<LispString(msg)>>))

\* the taxonomy as the documentation states it, by exception class
StatedCondition(t) ==
    CASE "overflow_error" \in Ancestors(t) -> "overflow-error"
      [] "underflow_error" \in Ancestors(t) -> "underflow-error"
      [] "range_error" \in Ancestors(t) -> "range-error"
      [] "out_of_range" \in Ancestors(t) -> "out-of-range"
      [] "bad_alloc" \in Ancestors(t) -> "memory-full"
      [] OTHER -> "error"

StatedMessage(exc) == IF "exception" \in Ancestors(exc.type) THEN exc.what ELSE "unknown error"

\* whether the host can extract a native T from the object v
Extractable(T, v) ==
    CASE T = "string" -> v.tag = "string"
      [] T = "double" -> v.tag = "float"
      [] T \in {"int", "intmax"} -> v.tag = "integer" /\ v.num >= IntmaxMin /\ v.num <= IntmaxMax
      [] OTHER -> TRUE

\* the handle that stands for the native value r of type R
HandleOf(R, r) ==
    CASE R = "int" -> LispInt(r.val.num)
      [] R = "string" -> LispString(r.val.str)
      [] OTHER -> r.val

\* ---------------------------------------------------------------- C1
\* C1 as stated: the wrapped trampoline returns the handle of a success Result
\* and leaves the slot alone; for an error Result E it returns the null handle
\* and the pending error equals E.
C1_AsStated ==
    (pc = "host" /\ form = "wrapped") =>
        /\ exit.kind = "value" => (ret = exit.x.val /\ pending = exit.atExit)
        /\ exit.kind = "error" => (ret = NULLV /\ pending = exit.x.err)

\* C1 amended: as C1, but the pending error equals E only if no error was
\* pending when f returned; an error f had raised before stays pending.
C1_WrappedResult ==
    (pc = "host" /\ form = "wrapped") =>
        /\ exit.kind = "value" => (ret = exit.x.val /\ pending = exit.atExit)
        /\ exit.kind = "error" =>
              /\ ret = NULLV
              /\ pending = IF exit.atExit.status = "Return" THEN exit.x.err ELSE exit.atExit

C1_Witness ==
    /\ pc = "host" /\ form = "wrapped" /\ exit.kind = "error"
    /\ exit.atExit.status = "Return" /\ exit.x.err = T1 /\ pending = T1 /\ ret = NULLV

\* ---------------------------------------------------------------- C2
\* C2 as stated: whatever is thrown inside a trampoline, it returns normally
\* with the null handle and a Signal pending.
C2_AsStated ==
    (pc = "host" /\ exit.kind = "exception") =>
        (~escaped /\ ret = NULLV /\ pending.status = "Signal")

\* C2 amended: whatever is thrown inside a trampoline, it returns normally with
\* the null handle and a non-local exit pending: a Signal if none was pending
\* when the exception was thrown, else the exit that was pending already.
C2_NoExceptionEscapes ==
    (pc = "host" /\ exit.kind = "exception") =>
        /\ ~escaped
        /\ ret = NULLV
        /\ pending.status = IF exit.atExit.status = "Return" THEN "Signal" ELSE exit.atExit.status

C2_Witness ==
    /\ pc = "host" /\ exit.kind = "exception" /\ exit.exc.type = "int"
    /\ ~escaped /\ ret = NULLV /\ pending.status = "Signal"

C4_FirstErrorWins ==
    /\ (pc = "native" /\ op.name \in {"signalError", "throwError", "report"}
           /\ op.pre.status # "Return") => pending = op.pre
    /\ (pc = "host" /\ exit.kind \in {"error", "exception"} /\ exit.atExit.status # "Return")
           => pending = exit.atExit

C4_Witness ==
    /\ pc = "host" /\ form = "wrapped" /\ exit.kind = "error"
    /\ exit.atExit = T1 /\ exit.x.err = E1 /\ pending = T1

\* ---------------------------------------------------------------- C5
\* C5: from Return, signalError(sym, data) makes checkError() Signal and
\* getError() (Signal, sym, data); throwError(tag, val) makes them Throw and
\* (Throw, tag, val); after clearError() checkError() is Return.
C5_RaiseAndClear ==
    pc = "native" =>
        /\ (op.name = "signalError" /\ op.pre.status = "Return") =>
              /\ Env_checkError(pending).x = "Signal"
              /\ Env_getError(pending).x = Error("Signal", op.err.sym, op.err.data)
        /\ (op.name = "throwError" /\ op.pre.status = "Return") =>
              /\ Env_checkError(pending).x = "Throw"
              /\ Env_getError(pending).x = Error("Throw", op.err.sym, op.err.data)
        /\ op.name = "clearError" => Env_checkError(pending).x = "Return"

C5_Witness ==
    /\ pc = "native" /\ op.name = "throwError" /\ op.pre.status = "Return"
    /\ op.err = T1 /\ pending = T1

\* ---------------------------------------------------------------- C6
\* C6 as stated: only clearError takes the slot from Signal or Throw to Return.
C6_AsStated ==
    (pc = "native" /\ op.pre.status # "Return" /\ pending.status = "Return") =>
        op.name = "clearError"

\* C6 amended: the slot goes from Signal or Throw to Return only by clearError
\* or by a checked operation (intern, make, call, as, at), which moves the
\* pending error into the error Result it returns; checkError, getError,
\* signalError, throwError and report never reset it.
C6_OnlyClear ==
    (pc = "native" /\ op.pre.status # "Return" /\ pending.status = "Return") =>
        \/ op.name = "clearError"
        \/ op.name \in {"intern", "make", "call", "as", "at"} /\ res = Unexpected(op.pre)

C6_Witness ==
    /\ pc = "native" /\ op.name = "intern" /\ op.pre = E1
    /\ pending = NoExit /\ res = Unexpected(E1)

\* ---------------------------------------------------------------- C7
\* C7: in the universal trampoline f is invoked only if every argument can be
\* extracted; otherwise the BadExpectedAccess is caught, the null handle is
\* returned and a Signal is pending.
C7_NotInvoked ==
    /\ (form = "universal" /\ invoked) => \A i \in 1..Len(sig) : Extractable(sig[i], args[i])
    /\ (form = "universal" /\ pc = "host" /\ ~invoked) =>
          /\ exit.kind = "exception" /\ exit.exc.type = "BadExpectedAccess"
          /\ ~escaped /\ ret = NULLV /\ pending.status = "Signal"

C7_Witness ==
    /\ form = "universal" /\ pc = "host" /\ ~invoked /\ sig = <<"int", "string">>
    /\ args = <<LispInt(1), LispInt(1)>> /\ ret = NULLV /\ pending.status = "Signal"

\* ---------------------------------------------------------------- C8
\* C8: when the extraction of an argument fails in a trampoline, the Signal
\* pending at its return is the one the host raised during the extraction.
C8_HostCondition ==
    (form = "universal" /\ pc = "host" /\ ~invoked /\ exit.kind = "exception") =>
        pending = exit.x.err

\* ---------------------------------------------------------------- C9
\* C9 as stated: a BadExpectedAccess thrown inside an exported function makes
\* no Signal or Throw pending.
C9_AsStated ==
    (pc = "host" /\ invoked /\ exit.kind = "exception" /\ exit.exc.type = "BadExpectedAccess") =>
        pending = exit.atExit

\* C9 amended: a BadExpectedAccess thrown inside an exported function is caught
\* by the trampoline and, if no error is pending, reported as Signal: error by
\* the wrapped trampoline, convert-error by the universal one.
C9_BadAccessReported ==
    (pc = "host" /\ invoked /\ exit.kind = "exception" /\ exit.exc.type = "BadExpectedAccess") =>
        pending = IF exit.atExit.status # "Return" THEN exit.atExit
                  ELSE SignalFor(IF form = "wrapped" THEN "error" ELSE "convert-error", exit.exc.what)

C9_Witness ==
    /\ pc = "host" /\ invoked /\ form = "universal" /\ exit.kind = "exception"
    /\ exit.exc = Exception("BadExpectedAccess", "Bad expected access")
    /\ pending = SignalFor("convert-error", "Bad expected access")

C11_ExactArity ==
    /\ \A f \in Functions :
          LET fn == Env_makeUniversal(NoExit, f.sig)
          IN  fn.x.ok /\ fn.x.val.num = Len(f.sig) /\ fn.x.val.items[1].num = Len(f.sig)
    /\ pc # "aborted"
    /\ form = "universal" => Len(args) = Len(sig)

\* C11 witness: the host has dispatched a call of a two-parameter universal
\* function and its arguments were marshalled
C11_Witness == pc = "native" /\ form = "universal" /\ Len(sig) = 2 /\ Len(nat) = 2

\* whether the host object v is of the type as<Kind> extracts
Matches(kind, v) ==
    CASE kind = "Int" -> v.tag = "integer"
      [] kind = "Float" -> v.tag = "float"
      [] kind = "String" -> v.tag = "string"
      [] OTHER -> FALSE

\* C15 as stated: as<Kind>() on a handle of another host type always returns
\* an error-state Result holding a Signal with symbol wrong-type-argument.
C15_AsStated ==
    (pc = "native" /\ op.name = "as" /\ ~Matches(op.kind, op.arg)) =>
        /\ ~res.ok
        /\ res.err.status = "Signal"
        /\ res.err.sym = LispSym("wrong-type-argument")

\* C15 amended: as<Kind>() on a handle of another host type never returns a
\* success value; with no error pending before it, the Result holds the host's
\* Signal wrong-type-argument; with an error pending before it, the Result
\* holds that error.  The slot reads Return afterwards.
C15_WrongType ==
    (pc = "native" /\ op.name = "as" /\ ~Matches(op.kind, op.arg)) =>
        /\ ~res.ok
        /\ pending = NoExit
        /\ IF op.pre.status = "Return"
           THEN res.err.status = "Signal" /\ res.err.sym = LispSym("wrong-type-argument")
           ELSE res.err = op.pre

\* C15 witness: String was asked of an integer handle with nothing pending
C15_Witness ==
    /\ pc = "native" /\ op.name = "as" /\ op.kind = "String" /\ op.arg = LispInt(1)
    /\ op.pre = NoExit /\ ~res.ok

OutOfRange(v, idx) == Error("Signal", LispSym("args-out-of-range"), LispList(<<v, LispInt(idx)>>))

\* C18 as stated: after v[idx] (get or set) with idx not less than the size of
\* v, the host's out-of-range Signal is pending.
C18_AsStated ==
    (pc = "native" /\ op.name \in {"vec_get", "vec_set"} /\ op.arg.tag = "vector"
        /\ op.n >= Len(op.arg.items)) => pending = OutOfRange(op.arg, op.n)

\* C18 amended: the proxy leaves the slot as the host call left it: with idx not
\* less than the size of v, the host's out-of-range Signal is pending if no
\* error was pending before, and the error pending before stays otherwise; a
\* set out of range leaves the vector as it was.
C18_ProxyUnchecked ==
    (pc = "native" /\ op.name \in {"vec_get", "vec_set"} /\ op.arg.tag = "vector"
        /\ op.n >= Len(op.arg.items)) =>
        /\ pending = IF op.pre.status = "Return" THEN OutOfRange(op.arg, op.n) ELSE op.pre
        /\ op.name = "vec_set" => vec = op.arg.items

\* C18 witness: a get at index 2 of a vector of two items, nothing pending before
C18_Witness ==
    /\ pc = "native" /\ op.name = "vec_get" /\ op.n = 2 /\ Len(op.arg.items) = 2
    /\ op.pre = NoExit /\ pending.status = "Signal"

C12_LoadFailureReported ==
    (\E i \in 1..Len(load.log) :
        load.log[i].call \in {"make_function", "defalias"} /\ ~load.log[i].ok) =>
        load.phase = "returned" /\ load.status # 0

\* the host calls that make and bind the descriptors, in registration order
RECURSIVE Bindings(_)
Bindings(defuns) ==
    IF defuns = <<>> THEN <<>>
    ELSE <<HostCall("make_function", Head(defuns).name, TRUE),
           HostCall("defalias", Head(defuns).name, TRUE)>> \o Bindings(Tail(defuns))

\* C13: when emacs_module_init returns 0, every descriptor in the registry was
\* made into a host function and bound to its name exactly once, in
\* registration order, and the feature was provided after all of them.
C13_BoundOnceInOrder ==
    (load.phase = "returned" /\ load.status = 0) =>
        load.log = <<HostCall("init_gtkmm_internals", "", TRUE)>> \o Bindings(registry)
                       \o <<HostCall("provide", "yapdf-module", TRUE)>>

\* C13 witness: a load that succeeded with two different descriptors registered
C13_Witness ==
    /\ load.phase = "returned" /\ load.status = 0
    /\ Len(registry) = 2 /\ registry[1].name = "h" /\ registry[2].name = "f"

\* C14: emacs_module_init returns 1 when the runtime's size is too small,
\* otherwise 2 when the environment's size is too small, and has then made,
\* bound and provided nothing.
C14_SizeMismatch ==
    load.phase # "static" =>
        /\ runtime.size < SizeofRuntime => load = Load("returned", 1, <<>>)
        /\ (runtime.size >= SizeofRuntime /\ runtime.envsize < SizeofEnv) =>
              load = Load("returned", 2, <<>>)

\* C14 witness: both sizes are too small, descriptors are registered, status 1
C14_Witness ==
    /\ load.phase = "returned" /\ load.status = 1 /\ registry # <<>>
    /\ runtime.size < SizeofRuntime /\ runtime.envsize < SizeofEnv

C20_ExactlyOneState ==
    expd.made =>
        /\ Expected_hasValue(expd.x) # Expected_hasError(expd.x)
        /\ Expected_hasValue(expd.y) # Expected_hasError(expd.y)
        /\ Expected_hasValue(expd.x) <=> expd.last.selects = 0

\* C21: value() and expect(s) on an Expected in the error state, error() and
\* expectErr(s) on one in the success state, throw BadExpectedAccess (with the
\* message s for expect / expectErr) and leave the Expected as it was; in the
\* matching state they return the payload held.
C21_BadAccess ==
    expd.saw.name \in {"value", "error", "expect", "expectErr"} =>
        LET x == expd.saw.x
            d == expd.saw.did
            wantsValue == expd.saw.name \in {"value", "expect"}
            wrong == IF wantsValue THEN Expected_hasError(x) ELSE Expected_hasValue(x)
            right == IF wantsValue THEN Expected_hasValue(x) ELSE Expected_hasError(x)
        IN  /\ expd.x = x
            /\ wrong => /\ d.exc.type = "BadExpectedAccess"
                        /\ expd.saw.name \in {"expect", "expectErr"} => d.exc.what = expd.saw.s
            /\ right => d.exc = NoException /\ d.val = x.v

C21_Witness ==
    /\ expd.saw.name = "expect" /\ Expected_hasError(expd.saw.x)
    /\ expd.saw.did.exc = BadExpectedAccess("dummy") /\ expd.x = expd.saw.x

\* C22: map(f) gives success holding f(value) on a success and the same error,
\* f not invoked, on an error; mapErr(f) gives error holding f(error) on an
\* error and the same value, f not invoked, on a success.
C22_MapOneSide ==
    expd.saw.name \in {"map", "mapErr"} =>
        LET x == expd.saw.x
            d == expd.saw.did
            f == expd.saw.fs[1]
            mapped == IF expd.saw.name = "map" THEN Expected_hasValue(x) ELSE Expected_hasError(x)
            other == IF expd.saw.name = "map" THEN Expected_hasError(x) ELSE Expected_hasValue(x)
        IN  /\ mapped => /\ d.exc = NoException /\ d.calls = <<<<f, x.v>>>>
                         /\ d.val = Variant(x.index, Invoke(f, x.v))
            /\ other => d.exc = NoException /\ d.calls = <<>> /\ d.val = x

C22_Witness ==
    /\ expd.saw.name = "mapErr" /\ expd.saw.x = Expected_ofError(1) /\ expd.saw.fs = <<"inc">>
    /\ expd.saw.did.val = Expected_ofError(2)

\* C23: in r.andThen(f1)...andThen(fn) the functions are invoked in order, each
\* on the success the link before it produced; after the first error (of r or
\* of some fi) no later function is invoked and that error is the result.
C23_ShortCircuit ==
    (expd.saw.name = "andThen" /\ expd.saw.x.index # -1) =>
        LET x == expd.saw.x
            d == expd.saw.did
            fs == expd.saw.fs
            n == Len(d.calls)
            made(i) == InvokeExpected(fs[i], d.calls[i][2])
        IN  /\ d.exc = NoException /\ n <= Len(fs)
            /\ \A i \in 1..n : d.calls[i][1] = fs[i]
            /\ Expected_hasError(x) => n = 0 /\ d.val = x
            /\ Expected_hasValue(x) => n >= 1 /\ d.calls[1][2] = x.v
            /\ \A i \in 1..n : i < n => Expected_hasValue(made(i)) /\ d.calls[i + 1][2] = made(i).v
            /\ n >= 1 => d.val = made(n)
            /\ (n >= 1 /\ n < Len(fs)) => Expected_hasError(made(n))

C23_Witness ==
    /\ expd.saw.name = "andThen" /\ expd.saw.fs = <<"error", "square">>
    /\ Expected_hasValue(expd.saw.x) /\ Len(expd.saw.did.calls) = 1
    /\ expd.saw.did.val = Expected_ofError(expd.saw.x.v)

\* C28: operator== on two Expected objects returns, without throwing, true
\* exactly when both are in the same state with equal payloads.
C28_Equality ==
    (expd.saw.name = "==" /\ expd.saw.x.index # -1 /\ expd.saw.y.index # -1) =>
        /\ expd.saw.did.exc = NoException
        /\ expd.saw.did.val = (expd.saw.x = expd.saw.y)

HandleFor(a) ==
    CASE a.type = "int" -> LispInt(a.r.val.num)
      [] a.type = "string" -> LispString(a.r.val.str)
      [] a.type = "Value" -> a.r.val.items[1]
      [] OTHER -> a.r.val

\* C25: Env::call converts every argument before it dispatches; when the
\* intern of f or a conversion fails it returns the error of the intern, or of
\* the failing argument of lowest index, and funcall is not performed;
\* otherwise funcall is performed once, with the handles in argument order.
C25_ArgumentsFirst ==
    calld.made =>
        LET d == calld.did
            n == Len(calld.as)
            internFailed == calld.F = "const char*" /\ calld.pre # NoExit
            failed == {i \in 1..Len(d.xs) : ~d.xs[i].ok}
        IN  /\ internFailed => d.x = Unexpected(calld.pre) /\ d.funcalls = <<>>
            /\ ~internFailed => Len(d.xs) = n
            /\ (~internFailed /\ failed # {}) =>
                  /\ d.funcalls = <<>>
                  /\ \E i \in failed : d.x = Unexpected(d.xs[i].err) /\ \A j \in failed : i <= j
            /\ (~internFailed /\ failed = {}) =>
                  /\ Len(d.funcalls) = 1 /\ Len(d.funcalls[1]) = n
                  /\ \A i \in 1..n : d.funcalls[1][i] = HandleFor(calld.as[i])

\* C25 witness: two arguments fail and the error of the first is returned
C25_Witness ==
    /\ calld.made /\ Len(calld.as) = 2 /\ Len(calld.did.xs) = 2 /\ calld.did.funcalls = <<>>
    /\ ~calld.did.xs[1].ok /\ ~calld.did.xs[2].ok /\ calld.did.xs[1].err # calld.did.xs[2].err
    /\ calld.did.x = Unexpected(calld.did.xs[1].err)

\* C26: draining the registry leaves its list of descriptors as it was; only
\* add grows the list, by one descriptor at its end, and only clear() shrinks
\* it, to the empty list, after which a drain makes and binds no function.
C26_DrainKeepsRegistry ==
    [][/\ load' # load /\ load'.phase # "static" => registry' = registry
       /\ Len(registry') > Len(registry) =>
             /\ load' = load /\ SubSeq(registry', 1, Len(registry)) = registry
             /\ Len(registry') = Len(registry) + 1
       /\ Len(registry') < Len(registry) => registry' = <<>> /\ load'.phase = "static"
       /\ Len(registry') = Len(registry) => registry' = registry
       /\ (registry = <<>> /\ load' # load /\ load'.phase # "static") =>
             \A i \in 1..Len(load'.log) : load'.log[i].call \notin {"make_function", "defalias"}]_vars

\* C26 witness: a registry of two descriptors has been drained and still holds
\* both
C26_Witness ==
    /\ load.phase = "returned" /\ load.status = 0 /\ Len(registry) = 2
    /\ Cardinality({j \in 1..Len(load.log) : load.log[j].call = "defalias"}) = 2

\* C27: a host integer that int cannot represent, handed to a universal
\* function for an int parameter, is reported as a conversion error (f not
\* invoked, a signal pending) and never delivered to f as a different number.
C27_NarrowingReported ==
    \A i \in 1..Len(sig) :
        (/\ form = "universal" /\ pc \in {"host", "native"} /\ Len(args) = Len(sig)
         /\ sig[i] = "int" /\ args[i].tag = "integer"
         /\ (args[i].num > IntMax \/ args[i].num < -IntMax - 1)) =>
            ~invoked /\ nat = <<>> /\ pending.status = "Signal"

\* C29: for every nanosecond count ns, make<Time>(ns) with nothing pending
\* hands the host a timespec with tv_sec * 10^9 + tv_nsec = ns and
\* 0 <= tv_nsec < 10^9, and as<Time>() on the handle made returns ns.
C29_TimeRoundTrip ==
    (timed.phase # "none" /\ timed.overload = "ns" /\ timed.pre = NoExit) =>
        /\ timed.ts.tv_sec * NsPerSec + timed.ts.tv_nsec = timed.ns
        /\ timed.ts.tv_nsec >= 0 /\ timed.ts.tv_nsec < NsPerSec
        /\ timed.made.ok
        /\ timed.phase = "extracted" => timed.out = Ok(CInt(timed.ns))

\* C30: Env::message calls the host function message with the format "%s" and
\* one data argument, a host string equal to the whole formatted text; it
\* returns 0 exactly when that call succeeds, and -1 when formatting,
\* allocation or the call fails.
C30_MessageText ==
    msgd.made =>
        LET d == msgd.did.did
        IN  /\ ~msgd.prepared => msgd.did.ret = -1 /\ d.funcalls = <<>>
            /\ msgd.prepared => msgd.did.ret = (IF d.x.ok THEN 0 ELSE -1)
            /\ (msgd.prepared /\ msgd.pre = NoExit /\ ValidUTF8(msgd.text)) =>
                  /\ Len(d.funcalls) = 1
                  /\ d.funcalls[1][1] = LispString("%s")
                  /\ d.funcalls[1][2] = LispMultibyte(utf8_decode(msgd.text))

====
